---- MODULE Spec2Model ----
(***************************************************************************)
(* Model of the Notion report generator: notion_connection.Connection,     *)
(* report.ReportManager and report.Report.                                  *)
(*                                                                         *)
(* Spec       the retrieval pipeline Report(date) -> obtain_report ->      *)
(*            report_info_from_date -> report_content_from_id, with every  *)
(*            blocking HTTP call split into its request and its response.  *)
(* SpecEntry  the pure function obtain_report._filter_content applied to    *)
(*            raw entry records.                                            *)
(* SpecWrite  the per-yard sections of Report.write applied to a content    *)
(*            table.                                                        *)
(***************************************************************************)
EXTENDS Integers, Sequences, FiniteSets, TLC

VARIABLES
    cxn,            \* ReportManager.cxn     (None or the Connection)
    author,         \* ReportManager.author  (None or a name)
    pc,             \* position of the single thread of control
    retrieval,      \* number of Report(date) constructions started so far
    date,           \* the date argument of the running retrieval <<d, m, y>>
    inflight,       \* HTTP requests sent and not yet answered
    log,            \* HTTP requests issued by the running retrieval, in order
    reports,        \* report_info_from_date: the "results" of the date query
    report_info,    \* obtain_report: the record returned by report_info_from_date
    comments,       \* obtain_report: local `comments`
    colleagues,     \* obtain_report: local `colleagues`
    report_blocks,  \* report_content_from_id: the children of the report page
    inner_dbs,      \* report_content_from_id: ids of the child_database blocks
    total,          \* remote: number of records of the nested database
    k,              \* remote: page size it serves
    response,       \* report_content_from_id: last page response
    results,        \* report_content_from_id: records accumulated so far
    report_content, \* obtain_report: value returned by report_content_from_id
    report,         \* the Report object handed to the caller (None if none)
    raised,         \* the exception that ended the retrieval ("" if none)
    entry,          \* SpecEntry: the raw entry given to _filter_content
    relevant,       \* SpecEntry: what _filter_content returned / raised
    content,        \* SpecWrite: Report.content, the rows of the DataFrame
    text            \* SpecWrite: what the yard loop of Report.write printed

vars == <<cxn, author, pc, retrieval, date, inflight, log, reports, report_info,
          comments, colleagues, report_blocks, inner_dbs, total, k, response,
          results, report_content, report, raised, entry, relevant, content, text>>

pipelineVars == <<cxn, author, pc, retrieval, date, inflight, log, reports,
                  report_info, comments, colleagues, report_blocks, inner_dbs,
                  total, k, response, results, report_content, report, raised>>

----------------------------------------------------------------------------
(* Bounds of the model *)

MaxRetrievals == 2      \* Report(date) constructions per behaviour
MaxMatches == 2         \* records a date query may return
MaxRuns == 2            \* text runs in a rich_text / title value
MaxColleagues == 2      \* options in the multi_select
MaxBlocks == 2          \* children blocks of a report page
MaxTotal == 3           \* records in the nested database
MaxPageSize == 2        \* page size of the remote
MaxEntries == 3         \* rows of Report.content

----------------------------------------------------------------------------
(* Python values *)

None == <<>>
Some(x) == <<x>>

\* Python truthiness of None / a list: None and [] are falsy
Falsy(v) == v = <<>>

SeqsUpTo(S, n) == UNION {[1..m -> S] : m \in 0..n}

Min(a, b) == IF a < b THEN a ELSE b

Authors == {"Rafa"}
ApiTokens == {"secret"}
DatabaseIds == {<<"db", 1>>}
Texts == {"ok", "diet"}
Names == {"Ana", "Luis"}
Shifts == {"Tarde"}

\* the dates a caller passes, as <<day, month, year>> read by "%d/%m/%Y"
Dates == {<<10, 5, 2024>>, <<31, 2, 2024>>}

----------------------------------------------------------------------------
(* datetime: strptime(report_date, "%d/%m/%Y") and strftime("%Y-%m-%d") *)

IsLeap(y) == (y % 4 = 0 /\ y % 100 # 0) \/ y % 400 = 0

DaysInMonth(m, y) ==
    CASE m \in {4, 6, 9, 11} -> 30
      [] m = 2 -> IF IsLeap(y) THEN 29 ELSE 28
      [] OTHER -> 31

\* None stands for the ValueError strptime raises on a date that does not exist
strptime(d) ==
    IF d[2] \in 1..12 /\ d[1] \in 1..DaysInMonth(d[2], d[3]) /\ d[3] \in 1..9999
    THEN Some([year |-> d[3], month |-> d[2], day |-> d[1]])
    ELSE None

strftime(dt) == <<dt.year, dt.month, dt.day>>

----------------------------------------------------------------------------
(* The remote service: what the three endpoints may answer *)

\* properties of a report record, as the Notion API wraps them
ReportProps ==
    [Dia         : {None, Some([start |-> <<2024, 5, 10>>])},
     Horario     : {None} \cup {Some([name |-> s]) : s \in Shifts},
     Comentarios : SeqsUpTo([plain_text : Texts], MaxRuns),
     Companeros  : SeqsUpTo([name : Names], MaxColleagues)]

\* the "results" of a date query: n records (the matches of the filter)
DateQueryResults(n, p) ==
    [i \in 1..n |-> [id |-> <<"page", i>>, properties |-> p]]

BlockTypes == {"child_database", "paragraph"}

\* the "results" of blocks/{id}/children
ChildrenResults(types) ==
    [i \in 1..Len(types) |-> [id |-> <<"block", i>>, type |-> types[i]]]

\* one page of databases/{id}/query over a collection of tot records served
\* kk at a time: records are numbered 1..tot, a cursor is the number of
\* records already served
RemotePage(tot, kk, start_cursor) ==
    LET start == IF start_cursor = None THEN 0 ELSE start_cursor[1]
        end   == Min(start + kk, tot)
    IN  [results     |-> [i \in 1..(end - start) |-> start + i],
         has_more    |-> end < tot,
         next_cursor |-> IF end < tot THEN Some(end) ELSE None]

----------------------------------------------------------------------------
(* The exceptions the code raises *)

NotInitialized == "ERROR: The ReportManager has to be initialized first."
NoReport == "ERROR: There is no report written on that date."
ManyReports == "ERROR: More than one report within the same date."
NoDate == "ERROR: The report has no date."
NoShift == "ERROR: The report has no shift selected."
BadFormat == "ERROR: Something went wrong with the format on page"
NoName == "ERROR: Some entry has no name."
NoYard == "ERROR: Some entry has no yard."
ValueError == "ValueError: time data does not match format '%d/%m/%Y'"
AttributeError == "AttributeError: 'list' object has no attribute 'values'"
KeyError == "KeyError"

----------------------------------------------------------------------------
(* HTTP requests *)

Post(url, filter, start_cursor) ==
    [method |-> "POST", url |-> url,
     body |-> [filter |-> filter, start_cursor |-> start_cursor]]

Get(url) ==
    [method |-> "GET", url |-> url,
     body |-> [filter |-> None, start_cursor |-> None]]

QueryUrl(database_id) == <<"databases", database_id, "query">>
ChildrenUrl(report_id) == <<"blocks", report_id, "children">>

Send(req) ==
    /\ inflight' = inflight \cup {req}
    /\ log' = Append(log, req)

Raise(e) ==
    /\ pc' = "raised"
    /\ raised' = e

----------------------------------------------------------------------------
(* Initial state: the class attributes of ReportManager, nothing running *)

PipelineInit ==
    /\ cxn = None
    /\ author = None
    /\ pc = "idle"
    /\ retrieval = 0
    /\ date = <<1, 1, 1>>
    /\ inflight = {}
    /\ log = <<>>
    /\ reports = <<>>
    /\ report_info = None
    /\ comments = None
    /\ colleagues = None
    /\ report_blocks = <<>>
    /\ inner_dbs = <<>>
    /\ total = 0
    /\ k = 1
    /\ response = None
    /\ results = <<>>
    /\ report_content = None
    /\ report = None
    /\ raised = ""

NoEntry ==
    [properties |-> [Nombre |-> <<>>, Patio |-> None, Observaciones |-> <<>>,
                     Importante |-> <<>>, Estado |-> None]]

PureIdle ==
    /\ entry = NoEntry
    /\ relevant = None
    /\ content = <<>>
    /\ text = None

Init == PipelineInit /\ PureIdle

----------------------------------------------------------------------------
(* ReportManager.initialize *)

Initialize ==
    /\ pc \in {"idle", "raised"}
    /\ \E a \in Authors, api_token \in ApiTokens, database_id \in DatabaseIds :
          /\ cxn' = Some([API_TOKEN |-> api_token, DATABASE_ID |-> database_id])
          /\ author' = Some(a)
    /\ UNCHANGED <<pc, retrieval, date, inflight, log, reports, report_info,
                   comments, colleagues, report_blocks, inner_dbs, total, k,
                   response, results, report_content, report, raised>>
    /\ UNCHANGED <<entry, relevant, content, text>>

----------------------------------------------------------------------------
(* Report.__init__ -> ReportManager.obtain_report -> report_info_from_date,
   up to the request of line 71 *)

\* variant: the test of ReportManager.cxn is missing, obtain_report runs on None
Report__init__unguarded ==
    /\ pc \in {"idle", "raised"}
    /\ retrieval < MaxRetrievals
    /\ retrieval' = retrieval + 1
    /\ \E d \in Dates :
          /\ date' = d
          /\ reports' = <<>>
          /\ report_info' = None
          /\ comments' = None
          /\ colleagues' = None
          /\ report_blocks' = <<>>
          /\ inner_dbs' = <<>>
          /\ response' = None
          /\ results' = <<>>
          /\ report_content' = None
          /\ report' = None
          /\ total' = 0
          /\ k' = 1
          /\ IF Falsy(cxn)
             THEN /\ Raise("AttributeError: 'NoneType' object has no attribute 'report_info_from_date'")
                  /\ inflight' = {}
                  /\ log' = <<>>
             ELSE IF strptime(d) = None
             THEN /\ Raise(ValueError)
                  /\ inflight' = {}
                  /\ log' = <<>>
             ELSE /\ pc' = "L71"
                  /\ raised' = ""
                  /\ LET req == Post(QueryUrl(cxn[1].DATABASE_ID),
                                     Some(strftime(strptime(d)[1])), None)
                     IN  /\ inflight' = {req}
                         /\ log' = <<req>>
    /\ UNCHANGED <<cxn, author>>
    /\ UNCHANGED <<entry, relevant, content, text>>

Report__init__ ==
    /\ pc \in {"idle", "raised"}
    /\ retrieval < MaxRetrievals
    /\ retrieval' = retrieval + 1
    /\ \E d \in Dates :
          /\ date' = d
          /\ reports' = <<>>
          /\ report_info' = None
          /\ comments' = None
          /\ colleagues' = None
          /\ report_blocks' = <<>>
          /\ inner_dbs' = <<>>
          /\ response' = None
          /\ results' = <<>>
          /\ report_content' = None
          /\ report' = None
          /\ total' = 0
          /\ k' = 1
          /\ IF Falsy(cxn)
             THEN /\ Raise(NotInitialized)
                  /\ inflight' = {}
                  /\ log' = <<>>
             ELSE IF strptime(d) = None
             THEN /\ Raise(ValueError)
                  /\ inflight' = {}
                  /\ log' = <<>>
             ELSE /\ pc' = "L71"
                  /\ raised' = ""
                  /\ LET req == Post(QueryUrl(cxn[1].DATABASE_ID),
                                     Some(strftime(strptime(d)[1])), None)
                     IN  /\ inflight' = {req}
                         /\ log' = <<req>>
    /\ UNCHANGED <<cxn, author>>
    /\ UNCHANGED <<entry, relevant, content, text>>

----------------------------------------------------------------------------
(* Connection.report_info_from_date, from the response of line 71 *)

\* variant: the more-than-one test is missing and the first record is taken
report_info_from_date_first ==
    /\ pc = "L71"
    /\ \E n \in 0..MaxMatches, p \in ReportProps :
          /\ reports' = DateQueryResults(n, p)
          /\ inflight' = {}
          /\ IF Len(reports') = 0
             THEN /\ Raise(NoReport)
                  /\ report_info' = None
             ELSE /\ report_info' = Some(reports'[1])
                  /\ pc' = "L66"
                  /\ raised' = ""
    /\ UNCHANGED <<cxn, author, retrieval, date, log, comments, colleagues,
                   report_blocks, inner_dbs, total, k, response, results,
                   report_content, report>>
    /\ UNCHANGED <<entry, relevant, content, text>>

\* variant: an empty result is answered by sending the query again
report_info_from_date_retry ==
    /\ pc = "L71"
    /\ \E n \in 0..MaxMatches, p \in ReportProps :
          /\ reports' = DateQueryResults(n, p)
          /\ inflight' = IF n = 0 THEN inflight ELSE {}
          /\ log' = IF n = 0 THEN Append(log, log[Len(log)]) ELSE log
          /\ IF Len(reports') = 0
             THEN /\ pc' = "L71"
                  /\ raised' = ""
                  /\ report_info' = None
             ELSE IF Len(reports') > 1
             THEN /\ Raise(ManyReports)
                  /\ report_info' = None
             ELSE /\ report_info' = Some(reports'[1])
                  /\ pc' = "L66"
                  /\ raised' = ""
    /\ UNCHANGED <<cxn, author, retrieval, date, comments, colleagues,
                   report_blocks, inner_dbs, total, k, response, results,
                   report_content, report>>
    /\ UNCHANGED <<entry, relevant, content, text>>

report_info_from_date ==
    /\ pc = "L71"
    /\ \E n \in 0..MaxMatches, p \in ReportProps :
          /\ reports' = DateQueryResults(n, p)
          /\ inflight' = {}
          /\ IF Len(reports') = 0
             THEN /\ Raise(NoReport)
                  /\ report_info' = None
             ELSE IF Len(reports') > 1
             THEN /\ Raise(ManyReports)
                  /\ report_info' = None
             ELSE /\ report_info' = Some(reports'[1])
                  /\ pc' = "L66"
                  /\ raised' = ""
    /\ UNCHANGED <<cxn, author, retrieval, date, log, comments, colleagues,
                   report_blocks, inner_dbs, total, k, response, results,
                   report_content, report>>
    /\ UNCHANGED <<entry, relevant, content, text>>

----------------------------------------------------------------------------
(* ReportManager.obtain_report, lines 66-83: mandatory and optional
   attributes of the report record *)

\* variant: the shift is not checked
obtain_report_info_unchecked_shift ==
    /\ pc = "L66"
    /\ LET report_props == report_info[1].properties
       IN  IF Falsy(report_props.Dia)
           THEN /\ Raise(NoDate)
                /\ UNCHANGED <<comments, colleagues>>
           ELSE /\ comments' = IF Falsy(report_props.Comentarios)
                               THEN Some("")
                               ELSE Some(report_props.Comentarios[1].plain_text)
                /\ colleagues' = IF Falsy(report_props.Companeros)
                                 THEN Some(<<>>)
                                 ELSE Some([i \in 1..Len(report_props.Companeros) |->
                                               report_props.Companeros[i].name])
                /\ pc' = "L85"
                /\ raised' = ""
    /\ UNCHANGED <<cxn, author, retrieval, date, inflight, log, reports,
                   report_info, report_blocks, inner_dbs, total, k, response,
                   results, report_content, report>>
    /\ UNCHANGED <<entry, relevant, content, text>>

obtain_report_info ==
    /\ pc = "L66"
    /\ LET report_props == report_info[1].properties
       IN  IF Falsy(report_props.Dia)
           THEN /\ Raise(NoDate)
                /\ UNCHANGED <<comments, colleagues>>
           ELSE IF Falsy(report_props.Horario)
           THEN /\ Raise(NoShift)
                /\ UNCHANGED <<comments, colleagues>>
           ELSE /\ comments' = IF Falsy(report_props.Comentarios)
                               THEN Some("")
                               ELSE Some(report_props.Comentarios[1].plain_text)
                /\ colleagues' = IF Falsy(report_props.Companeros)
                                 THEN Some(<<>>)
                                 ELSE Some([i \in 1..Len(report_props.Companeros) |->
                                               report_props.Companeros[i].name])
                /\ pc' = "L85"
                /\ raised' = ""
    /\ UNCHANGED <<cxn, author, retrieval, date, inflight, log, reports,
                   report_info, report_blocks, inner_dbs, total, k, response,
                   results, report_content, report>>
    /\ UNCHANGED <<entry, relevant, content, text>>

----------------------------------------------------------------------------
(* Connection.report_content_from_id *)

\* lines 101-103: GET blocks/{report_id}/children
report_content_from_id ==
    /\ pc = "L85"
    /\ Send(Get(ChildrenUrl(report_info[1].id)))
    /\ pc' = "L103"
    /\ UNCHANGED <<cxn, author, retrieval, date, reports, report_info, comments,
                   colleagues, report_blocks, inner_dbs, total, k, response,
                   results, report_content, report, raised>>
    /\ UNCHANGED <<entry, relevant, content, text>>

\* line 104: ids of the blocks of type child_database, in order
InnerDbs(blocks) ==
    LET F[i \in 0..Len(blocks)] ==
            IF i = 0 THEN <<>>
            ELSE IF blocks[i].type = "child_database"
                 THEN Append(F[i - 1], blocks[i].id)
                 ELSE F[i - 1]
    IN  F[Len(blocks)]

\* variant: only the absence of an inner database is an error
find_inner_db_first ==
    /\ pc = "L103"
    /\ \E types \in SeqsUpTo(BlockTypes, MaxBlocks) :
          /\ report_blocks' = ChildrenResults(types)
          /\ inflight' = {}
          /\ inner_dbs' = InnerDbs(report_blocks')
          /\ IF Len(inner_dbs') = 0
             THEN Raise(BadFormat)
             ELSE /\ pc' = "L111"
                  /\ raised' = ""
    /\ UNCHANGED <<cxn, author, retrieval, date, log, reports, report_info,
                   comments, colleagues, total, k, response, results,
                   report_content, report>>
    /\ UNCHANGED <<entry, relevant, content, text>>

\* lines 103-109: the children arrive
find_inner_db ==
    /\ pc = "L103"
    /\ \E types \in SeqsUpTo(BlockTypes, MaxBlocks) :
          /\ report_blocks' = ChildrenResults(types)
          /\ inflight' = {}
          /\ inner_dbs' = InnerDbs(report_blocks')
          /\ IF Len(inner_dbs') # 1
             THEN Raise(BadFormat)
             ELSE /\ pc' = "L111"
                  /\ raised' = ""
    /\ UNCHANGED <<cxn, author, retrieval, date, log, reports, report_info,
                   comments, colleagues, total, k, response, results,
                   report_content, report>>
    /\ UNCHANGED <<entry, relevant, content, text>>

\* lines 109-118: first query of the nested database, with the empty body;
\* the remote collection it will read has tot records served kk at a time
query_inner_db ==
    /\ pc = "L111"
    /\ \E tot \in 0..MaxTotal, kk \in 1..MaxPageSize :
          /\ total' = tot
          /\ k' = kk
    /\ LET database_id == inner_dbs[1]
       IN  Send(Post(QueryUrl(database_id), None, None))
    /\ pc' = "L118"
    /\ UNCHANGED <<cxn, author, retrieval, date, reports, report_info, comments,
                   colleagues, report_blocks, inner_dbs, response, results,
                   report_content, report, raised>>
    /\ UNCHANGED <<entry, relevant, content, text>>

\* variant: a further page replaces the records instead of extending them
receive_page_overwrite ==
    /\ pc \in {"L118", "L126"}
    /\ \E req \in inflight :
          /\ response' = Some(RemotePage(total, k, req.body.start_cursor))
          /\ inflight' = inflight \ {req}
    /\ results' = response'[1].results
    /\ pc' = "L121"
    /\ UNCHANGED <<cxn, author, retrieval, date, log, reports, report_info,
                   comments, colleagues, report_blocks, inner_dbs, total, k,
                   report_content, report, raised>>
    /\ UNCHANGED <<entry, relevant, content, text>>

\* lines 118-119 and 126-127: a page arrives
receive_page ==
    /\ pc \in {"L118", "L126"}
    /\ \E req \in inflight :
          /\ response' = Some(RemotePage(total, k, req.body.start_cursor))
          /\ inflight' = inflight \ {req}
    /\ results' = IF pc = "L118"
                  THEN response'[1].results
                  ELSE results \o response'[1].results
    /\ pc' = "L121"
    /\ UNCHANGED <<cxn, author, retrieval, date, log, reports, report_info,
                   comments, colleagues, report_blocks, inner_dbs, total, k,
                   report_content, report, raised>>
    /\ UNCHANGED <<entry, relevant, content, text>>

\* variant: the further query does not carry the cursor
next_page_no_cursor ==
    /\ pc = "L121"
    /\ response[1].has_more
    /\ Send(Post(QueryUrl(inner_dbs[1]), None, None))
    /\ pc' = "L126"
    /\ UNCHANGED <<cxn, author, retrieval, date, reports, report_info, comments,
                   colleagues, report_blocks, inner_dbs, total, k, response,
                   results, report_content, report, raised>>
    /\ UNCHANGED <<entry, relevant, content, text>>

\* lines 121-126: while response["has_more"], ask for the next page
next_page ==
    /\ pc = "L121"
    /\ response[1].has_more
    /\ Send(Post(QueryUrl(inner_dbs[1]), None, response[1].next_cursor))
    /\ pc' = "L126"
    /\ UNCHANGED <<cxn, author, retrieval, date, reports, report_info, comments,
                   colleagues, report_blocks, inner_dbs, total, k, response,
                   results, report_content, report, raised>>
    /\ UNCHANGED <<entry, relevant, content, text>>

\* line 129: return results (a list)
return_results ==
    /\ pc = "L121"
    /\ ~response[1].has_more
    /\ report_content' = Some([type |-> "list", value |-> results])
    /\ pc' = "L86"
    /\ UNCHANGED <<cxn, author, retrieval, date, inflight, log, reports,
                   report_info, comments, colleagues, report_blocks, inner_dbs,
                   total, k, response, results, report, raised>>
    /\ UNCHANGED <<entry, relevant, content, text>>

----------------------------------------------------------------------------
(* ReportManager.obtain_report, line 86:
   visits, report_database = report_content.values()
   report_content is the list of line 129 and a list has no values() *)

obtain_report_content ==
    /\ pc = "L86"
    /\ report_content[1].type = "list"
    /\ Raise(AttributeError)
    /\ UNCHANGED <<cxn, author, retrieval, date, inflight, log, reports,
                   report_info, comments, colleagues, report_blocks, inner_dbs,
                   total, k, response, results, report_content, report>>
    /\ UNCHANGED <<entry, relevant, content, text>>

----------------------------------------------------------------------------

Next ==
    \/ Initialize
    \/ Report__init__
    \/ report_info_from_date
    \/ obtain_report_info
    \/ report_content_from_id
    \/ find_inner_db
    \/ query_inner_db
    \/ receive_page
    \/ next_page
    \/ return_results
    \/ obtain_report_content

Spec == Init /\ [][Next]_vars

----------------------------------------------------------------------------
(* Properties of the retrieval pipeline *)

\* the date query of the running retrieval has been answered
DateQueryAnswered == log # <<>> /\ pc # "L71"

\* C1: once the date query is answered, the outcome of report_info_from_date
\* is decided by the number of records returned: exactly one, that record is
\* the report; none, the no-report error; two or more, the more-than-one
\* error and no record is picked.
C1_ThreeOutcomes ==
    DateQueryAnswered =>
        /\ Len(reports) = 1 =>
              /\ report_info = Some(reports[1])
              /\ raised \notin {NoReport, ManyReports}
        /\ Len(reports) = 0 =>
              /\ pc = "raised" /\ raised = NoReport
              /\ report_info = None
        /\ Len(reports) >= 2 =>
              /\ pc = "raised" /\ raised = ManyReports
              /\ report_info = None

C1_AmbiguousSeen ==
    /\ DateQueryAnswered
    /\ Len(reports) >= 2
    /\ raised = ManyReports

\* requests of the running retrieval that query the nested database
PageRequests ==
    {i \in 1..Len(log) : i >= 3 /\ log[i].method = "POST"}

Ceil(a, b) == (a + b - 1) \div b

AllRecords == [i \in 1..total |-> i]

\* C2 as stated: the fetch returns the records 1..total in order and made
\* exactly ceil(total/k) requests, for every total >= 0.
C2_CeilRequests ==
    pc = "L86" =>
        /\ report_content[1].value = AllRecords
        /\ Cardinality(PageRequests) = Ceil(total, k)

\* C2 amended: the fetch returns the records 1..total in order and made
\* ceil(total/k) requests, but never fewer than one: the first request is
\* sent before anything is known about the collection.
C2_CeilRequestsAtLeastOne ==
    pc = "L86" =>
        /\ report_content[1].value = AllRecords
        /\ Cardinality(PageRequests) =
              (IF total = 0 THEN 1 ELSE Ceil(total, k))

C2_SeveralPagesWithRemainder ==
    /\ pc = "L86"
    /\ Cardinality(PageRequests) >= 2
    /\ total % k # 0
    /\ Len(report_content[1].value) = total

\* the children fetch of the running retrieval has been answered
ChildrenAnswered == Len(log) >= 2 /\ pc # "L103"

ChildDatabases ==
    {i \in 1..Len(report_blocks) : report_blocks[i].type = "child_database"}

\* C3: once the children are in, the format error is raised exactly when the
\* number of child_database blocks is not one; then no nested database was
\* queried; with exactly one, every nested query goes to that block's id.
C3_ExactlyOneInnerDb ==
    ChildrenAnswered =>
        /\ (raised = BadFormat) <=> (Cardinality(ChildDatabases) # 1)
        /\ Cardinality(ChildDatabases) # 1 => Len(log) = 2
        /\ Cardinality(ChildDatabases) = 1 =>
              \A i \in 3..Len(log) :
                 log[i].url =
                    QueryUrl(report_blocks[CHOOSE j \in ChildDatabases : TRUE].id)

C3_TwoInnerDbs ==
    /\ ChildrenAnswered
    /\ Cardinality(ChildDatabases) = 2
    /\ raised = BadFormat

\* C4: what report_content_from_id hands to obtain_report is a mapping of two
\* sub-collections (visits, main entries) and obtain_report destructures it.
C4_VisitsAndEntries ==
    /\ report_content # None => report_content[1].type = "dict"
    /\ raised # AttributeError

\* the report record has been through lines 70-83
InfoChecked == report_info # None /\ pc # "L66"

\* C6: a report record without date fails with the no-date error, one with a
\* date and without shift with the no-shift error; with both, neither error
\* is raised, comments is the first text run or "" and colleagues the names
\* or the empty list.
C6_ReportInfo ==
    InfoChecked =>
        LET props == report_info[1].properties
        IN  /\ props.Dia = None => raised = NoDate
            /\ (props.Dia # None /\ props.Horario = None) => raised = NoShift
            /\ (props.Dia # None /\ props.Horario # None) =>
                  /\ raised \notin {NoDate, NoShift}
                  /\ comments =
                        (IF props.Comentarios = <<>> THEN Some("")
                         ELSE Some(props.Comentarios[1].plain_text))
                  /\ colleagues =
                        (IF props.Companeros = <<>> THEN Some(<<>>)
                         ELSE Some([i \in 1..Len(props.Companeros) |->
                                       props.Companeros[i].name]))

C6_OptionalAbsent ==
    /\ InfoChecked
    /\ pc = "L85"
    /\ report_info[1].properties.Comentarios = <<>>
    /\ report_info[1].properties.Companeros = <<>>
    /\ comments = Some("")
    /\ colleagues = Some(<<>>)

NoRequestRepeated ==
    \A i, j \in 1..Len(log) : i # j => log[i] # log[j]

\* C8: a raised failure is final for the retrieval: nothing is in flight, no
\* Report was built, and until the caller starts another retrieval no request
\* is issued and the failure stays; no request of a retrieval is sent twice.
C8_FailWhole ==
    /\ [](/\ NoRequestRepeated
          /\ report = None
          /\ pc = "raised" => (raised # "" /\ inflight = {}))
    /\ [][(pc = "raised" /\ retrieval' = retrieval) =>
             /\ pc' = "raised"
             /\ raised' = raised
             /\ log' = log
             /\ inflight' = {}
             /\ report' = None]_vars

C8_FailedAfterRequests ==
    /\ pc = "raised"
    /\ raised = NoShift
    /\ Len(log) = 1
    /\ report = None

\* C9: at most one request is outstanding; a request is sent only when none
\* is; the order is date query, children fetch, nested queries; the children
\* fetch is sent only with a report record whose date and shift are present;
\* the nested queries only with the one inner database found; a further page
\* carries the next_cursor of the last response.
C9_SequentialChain ==
    /\ [](/\ Cardinality(inflight) <= 1
          /\ Len(log) >= 1 =>
                /\ log[1].method = "POST"
                /\ log[1].body.filter # None
          /\ Len(log) >= 2 =>
                /\ log[2].method = "GET"
                /\ report_info # None
                /\ log[2].url = ChildrenUrl(report_info[1].id)
                /\ report_info[1].properties.Dia # None
                /\ report_info[1].properties.Horario # None
          /\ Len(log) >= 3 =>
                /\ Len(inner_dbs) = 1
                /\ \A i \in 3..Len(log) : log[i].url = QueryUrl(inner_dbs[1])
                /\ log[3].body.start_cursor = None)
    /\ [][/\ (Len(log') > Len(log) /\ retrieval' = retrieval) => inflight = {}
          /\ (Len(log') > Len(log) /\ Len(log) >= 3) =>
                /\ response # None
                /\ response[1].has_more
                /\ log'[Len(log')].body.start_cursor = response[1].next_cursor
                /\ response[1].next_cursor # None]_vars

C9_ThirdPageRequested ==
    /\ pc = "L126"
    /\ Len(log) >= 5
    /\ Cardinality(inflight) = 1

\* C10: a Report built while ReportManager.cxn is None fails with the
\* has-to-be-initialized error without any request; a request is in flight
\* only with cxn and author set; no step of a retrieval changes cxn or author.
C10_InitializedFirst ==
    /\ [](inflight # {} => (cxn # None /\ author # None))
    /\ [][/\ (retrieval' # retrieval /\ cxn = None) =>
                /\ pc' = "raised"
                /\ raised' = NotInitialized
                /\ log' = <<>>
                /\ inflight' = {}
          /\ (retrieval' # retrieval \/ pc \notin {"idle", "raised"}) =>
                /\ cxn' = cxn
                /\ author' = author]_vars

C10_ReportBeforeInitialize ==
    /\ cxn = None
    /\ retrieval >= 1
    /\ pc = "raised"
    /\ raised = NotInitialized
    /\ log = <<>>

----------------------------------------------------------------------------
(* obtain_report._filter_content, lines 98-130, as a function of the entry *)

\* yard names; the numbers stand for the labels "1", "2", ... in string order
Yards == {1, 2, 3}
States == {"Acogida", "Baja"}

RawEntries ==
    [properties :
        [Nombre        : SeqsUpTo([plain_text : Names], MaxRuns),
         Patio         : {None} \cup {Some([name |-> y]) : y \in Yards},
         Observaciones : SeqsUpTo([plain_text : Texts], MaxRuns),
         Importante    : SeqsUpTo([plain_text : Texts], MaxRuns),
         Estado        : {None} \cup {Some([name |-> st]) : st \in States}]]

Raised(e) == [raised |-> e, value |-> None]
Returned(v) == [raised |-> "", value |-> Some(v)]

\* variant: the yard is treated as one more optional attribute
filter_content_optional_yard(e) ==
    LET props == e.properties
    IN  IF Falsy(props.Nombre) THEN Raised(NoName)
        ELSE LET observations == IF Falsy(props.Observaciones) THEN ""
                                 ELSE props.Observaciones[1].plain_text
                 important == IF Falsy(props.Importante) THEN ""
                              ELSE props.Importante[1].plain_text
                 state == IF Falsy(props.Estado) THEN ""
                          ELSE props.Estado[1].name
             IN  Returned([name         |-> props.Nombre[1].plain_text,
                           yard         |-> IF Falsy(props.Patio) THEN 0 ELSE props.Patio[1].name,
                           state        |-> state,
                           observations |-> observations,
                           important    |-> important])

filter_content(e) ==
    LET props == e.properties
    IN  IF Falsy(props.Nombre) THEN Raised(NoName)
        ELSE IF Falsy(props.Patio) THEN Raised(NoYard)
        ELSE LET observations == IF Falsy(props.Observaciones) THEN ""
                                 ELSE props.Observaciones[1].plain_text
                 important == IF Falsy(props.Importante) THEN ""
                              ELSE props.Importante[1].plain_text
                 state == IF Falsy(props.Estado) THEN ""
                          ELSE props.Estado[1].name
             IN  Returned([name         |-> props.Nombre[1].plain_text,
                           yard         |-> props.Patio[1].name,
                           state        |-> state,
                           observations |-> observations,
                           important    |-> important])

EntryInit ==
    /\ PipelineInit
    /\ entry \in RawEntries
    /\ relevant = None
    /\ content = <<>>
    /\ text = None

FilterContent ==
    /\ relevant = None
    /\ relevant' = Some(filter_content(entry))
    /\ UNCHANGED pipelineVars
    /\ UNCHANGED <<entry, content, text>>

EntryNext == FilterContent

SpecEntry == EntryInit /\ [][EntryNext]_vars

\* C5: _filter_content raises exactly when the title or the Patio select is
\* empty (no-name, else no-yard); otherwise it returns the first title run as
\* name, the select name as yard, and for observations, important and state
\* the first text run / select name when present and "" when absent.
C5_FilterContent ==
    relevant # None =>
        LET props == entry.properties
            r == relevant[1]
        IN  /\ props.Nombre = <<>> => (r.raised = NoName /\ r.value = None)
            /\ (props.Nombre # <<>> /\ props.Patio = None) =>
                  (r.raised = NoYard /\ r.value = None)
            /\ (props.Nombre # <<>> /\ props.Patio # None) =>
                  /\ r.raised = ""
                  /\ r.value # None
                  /\ r.value[1].name = props.Nombre[1].plain_text
                  /\ r.value[1].yard = props.Patio[1].name
                  /\ r.value[1].observations =
                        (IF props.Observaciones = <<>> THEN ""
                         ELSE props.Observaciones[1].plain_text)
                  /\ r.value[1].important =
                        (IF props.Importante = <<>> THEN ""
                         ELSE props.Importante[1].plain_text)
                  /\ r.value[1].state =
                        (IF props.Estado = None THEN ""
                         ELSE props.Estado[1].name)

C5_OnlyOptionalMissing ==
    /\ relevant # None
    /\ entry.properties.Nombre # <<>>
    /\ entry.properties.Patio # None
    /\ entry.properties.Observaciones = <<>>
    /\ entry.properties.Importante # <<>>
    /\ entry.properties.Estado = None
    /\ relevant[1].raised = ""
    /\ relevant[1].value[1].observations = ""
    /\ relevant[1].value[1].state = ""

----------------------------------------------------------------------------
(* Report.write, lines 173 and 202-207: the per-yard sections *)

CatNames == {"tom", "jerry"}

\* str.upper on the names above
upper(n) == CASE n = "tom" -> "TOM" [] n = "jerry" -> "JERRY" [] OTHER -> n

\* the rows pd.DataFrame(content) is built from (line 170)
Rows ==
    [name : CatNames, yard : Yards, state : {"Baja"},
     observations : {"", "ok"}, important : {""}]

\* ascending order of a finite set of keys
RECURSIVE Sorted(_)
Sorted(S) ==
    IF S = {} THEN <<>>
    ELSE LET m == CHOOSE x \in S : \A y \in S : x <= y
         IN  <<m>> \o Sorted(S \ {m})

\* the labels of the rows of a yard, in frame order
RowsOfYard(df, y) ==
    LET F[n \in 0..Len(df)] ==
            IF n = 0 THEN <<>>
            ELSE IF df[n].yard = y THEN Append(F[n - 1], n) ELSE F[n - 1]
    IN  F[Len(df)]

\* variant: groupby("yard", sort=False), the groups in order of appearance
groupby_yard_unsorted(df) ==
    LET F[n \in 0..Len(df)] ==
            IF n = 0 THEN <<>>
            ELSE IF \E j \in 1..(n - 1) : df[j].yard = df[n].yard
                 THEN F[n - 1]
                 ELSE Append(F[n - 1], df[n].yard)
        keys == F[Len(df)]
    IN  [g \in 1..Len(keys) |->
            [yard |-> keys[g], cats |-> RowsOfYard(df, keys[g])]]

\* DataFrame.groupby("yard"), sort=True by default: the groups in ascending
\* key order, each with its rows in frame order
groupby_yard(df) ==
    LET keys == Sorted({df[i].yard : i \in 1..Len(df)})
    IN  [g \in 1..Len(keys) |->
            [yard |-> keys[g], cats |-> RowsOfYard(df, keys[g])]]

\* cats[cats["observations"] != ""]: the rows of a group that have observations
MaskCats(df, cats) ==
    LET F[n \in 0..Len(cats)] ==
            IF n = 0 THEN <<>>
            ELSE IF df[cats[n]].observations # ""
                 THEN Append(F[n - 1], cats[n])
                 ELSE F[n - 1]
    IN  F[Len(cats)]

\* lines 202-207: per group the header and one line per row with observations
YardSections(df) ==
    LET groups == groupby_yard(df)
    IN  [g \in 1..Len(groups) |->
            LET kept == MaskCats(df, groups[g].cats)
            IN  [header |-> <<"Patio", groups[g].yard>>,
                 lines  |-> [i \in 1..Len(kept) |->
                               [row  |-> kept[i],
                                name |-> upper(df[kept[i]].name),
                                observations |-> df[kept[i]].observations]]]]

write(df) ==
    IF Len(df) = 0
    THEN Raised(KeyError)       \* line 173: an empty frame has no column 'state'
    ELSE Returned(YardSections(df))

WriteInit ==
    /\ PipelineInit
    /\ entry = NoEntry
    /\ relevant = None
    /\ content \in SeqsUpTo(Rows, MaxEntries)
    /\ text = None

Write ==
    /\ text = None
    /\ text' = Some(write(content))
    /\ UNCHANGED pipelineVars
    /\ UNCHANGED <<entry, relevant, content>>

WriteNext == Write

SpecWrite == WriteInit /\ [][WriteNext]_vars

\* index of the first row of a yard in the content
FirstRow(y) ==
    CHOOSE i \in 1..Len(content) :
        /\ content[i].yard = y
        /\ \A j \in 1..(i - 1) : content[j].yard # y

\* one section per distinct yard, and in each section exactly the rows of
\* that yard with observations, in the order of the content
SectionsKeepRows(sections) ==
    /\ {sections[g].header[2] : g \in 1..Len(sections)} =
          {content[i].yard : i \in 1..Len(content)}
    /\ \A g, h \in 1..Len(sections) :
          g # h => sections[g].header[2] # sections[h].header[2]
    /\ \A g \in 1..Len(sections) :
          LET lines == sections[g].lines
          IN  /\ {lines[i].row : i \in 1..Len(lines)} =
                    {r \in 1..Len(content) :
                        /\ content[r].yard = sections[g].header[2]
                        /\ content[r].observations # ""}
              /\ \A a, b \in 1..Len(lines) : a < b => lines[a].row < lines[b].row

====
